---- MODULE Spec2Model ----
(***************************************************************************)
(* Download orchestration of the Music-URL-downloader repository.          *)
(*                                                                         *)
(* Five download flows and the two validators are modelled from the handlers' code:              *)
(*   yt_batch   Youtube_Downloader.download_from_file                      *)
(*              (src/src/youtube_url_downloader.py)                        *)
(*   sp_batch   Spotify_Downloader.download_from_file                      *)
(*              (src/src/spotify_url_downloader.py)                        *)
(*   id_single  Youtube_Downloader.download_single                         *)
(*              (src/src/interactive_downloader_2.py)                      *)
(*   yt_playlist Youtube_Downloader.download_playlist                      *)
(*              (src/src/youtube_url_downloader.py)                        *)
(*   dx_batch   DeemixDownloader.download_from_file                        *)
(*              (src/src/downloader_test.py)                               *)
(*   yt_validate, sp_validate   validate_resource of the two downloaders   *)
(* and the three rate_limit decorators (specification SpecRL).             *)
(*                                                                         *)
(* Text is a sequence of tokens: a token is one character ("a", "b", " ",  *)
(* "#") or one word the code writes or looks for as a whole ("DOWNLOADED", *)
(* "FAILED", "VALIDATION_FAILED:", a validator message, a comment "c").    *)
(* The handlers are modelled as called; statements that run when a module  *)
(* is imported or a class body is evaluated are not part of a handler.     *)
(***************************************************************************)
EXTENDS Integers, Sequences, FiniteSets, TLC

VARIABLES
    flow,           \* which handler this behaviour runs
    pc,             \* position of the handler
    disk,           \* the manifest file: its lines
    file_lines,     \* download_from_file: file_lines
    lines_read,     \* file_lines as they were right after the read (history)
    i,              \* download_from_file: loop index i (1-based)
    url,            \* download_from_file: loop variable url (the line as read)
    success_count,  \* download_from_file: success_count
    failed_count,   \* download_from_file: failed_count
    attempt,        \* retry loop: attempt
    success,        \* retry loop: success
    trace,          \* events of the current item: "sleep" or the outcome of an invocation (history)
    run,            \* number of the batch run in progress (history)
    valCalls,       \* invocations of the validator's subprocess in this run (history)
    toolAlwaysOk,   \* every external invocation so far succeeded (history)
    readsOk,        \* every read of the manifest so far succeeded (history)
    result,         \* what the handler returned to its caller
    writes,         \* writes of the manifest file in this run (history)
    validated,      \* outcome of the validator's subprocess just run, until the item's next step (history)
    validation_choice, \* Spotify download_from_file: validation_choice, 0 before the prompt
    download_choice, \* Spotify download_from_file: download_choice, 0 before the prompt
    summary,        \* the summary printed by the batch: <<success, failed>>, <<>> before it
    read_status,    \* how the read of the manifest went in this run: ok, missing, unreadable (history)
    metadata,       \* validate_resource: what the validator's subprocess gave, <<>> before it runs
    success_downloads, \* records in the success log for the current item
    failed_downloads, \* records in the failure log for the current item
    user_config,    \* max_retries of the persisted configuration file
    rlv,            \* which rate_limit decorator this behaviour runs
    now,            \* time.time(), in seconds
    last_called,    \* rate_limit: last_called[0]
    call_lock,      \* rate_limit: holder of call_lock, 0 when free
    tpc,            \* position of each thread in wrapper
    wakeAt,         \* per thread: time at which time.sleep(wait_time) ends
    starts,         \* protected calls started so far: [th, t, end] (history)
    seen            \* per thread: what the caller of wrapper got from its last call

dlvars == <<flow, pc, disk, file_lines, lines_read, i, url, success_count,
            failed_count, attempt, success, trace, run, valCalls,
            toolAlwaysOk, readsOk, result, writes, validated, validation_choice, download_choice, summary, read_status, metadata, success_downloads, failed_downloads, user_config>>
rlvars == <<rlv, now, last_called, call_lock, tpc, wakeAt, starts, seen>>
vars == <<dlvars, rlvars>>

----------------------------------------------------------------------------
(* Bounds of the model *)
MaxLines == 2       \* lines of a manifest
MaxRuns == 2        \* batch runs over the same manifest
MaxTime == 6        \* last instant of the clock
MaxCalls == 3       \* calls through one rate-limited entry point
MaxTracks == 2      \* tracks in the metadata of an album or playlist

(* Program constants *)
MAX_RETRIES == 3

\* the values of "max_retries" a persisted configuration file is given here
ConfigMaxRetries == 1..MAX_RETRIES

CallsPerMinute == 30

----------------------------------------------------------------------------
(* Text helpers: Python's str operations on token sequences *)

\* sub in s
Contains(s, sub) ==
    \E k \in 1..(Len(s) - Len(sub) + 1) : SubSeq(s, k, k + Len(sub) - 1) = sub

\* s.split('#')[0]
SplitHash0(s) ==
    IF \E k \in 1..Len(s) : s[k] = "#"
    THEN LET k == CHOOSE k \in 1..Len(s) : s[k] = "#" /\ \A j \in 1..(k-1) : s[j] # "#"
         IN SubSeq(s, 1, k - 1)
    ELSE s

RECURSIVE RStrip(_)
\* s.rstrip()
RStrip(s) ==
    IF s # <<>> /\ s[Len(s)] = " " THEN RStrip(SubSeq(s, 1, Len(s) - 1)) ELSE s

RECURSIVE LStrip(_)
LStrip(s) ==
    IF s # <<>> /\ s[1] = " " THEN LStrip(Tail(s)) ELSE s

\* s.strip()
Strip(s) == LStrip(RStrip(s))

DOWNLOADED == <<"#", " ", "DOWNLOADED">>
FAILED == <<"#", " ", "FAILED">>
VALIDATION_FAILED(message) == <<"#", " ", "VALIDATION_FAILED:", " ", message>>

\* f"{target} {marker}"
Marked(target, marker) == target \o <<" ">> \o marker

\* [line.rstrip() for line in file if line.strip()]
ReadLines(file) ==
    LET NonBlank(l) == Strip(l) # <<>>
        kept == SelectSeq(file, NonBlank)
    IN [k \in 1..Len(kept) |-> RStrip(kept[k])]

----------------------------------------------------------------------------
(* The external tools, as the handlers see them *)

\* one run of the downloader process
DlOutcomes == {"ok", "unavailable", "error", "tool_missing"}
\* the same plus subprocess.run's timeout, which only interactive_downloader_2 sets
IdOutcomes == DlOutcomes \cup {"timeout"}
\* one run of yt-dlp --skip-download --print-json
ValOutcomes == {"available", "flagged_unavailable", "bad_json", "nonzero", "timeout", "exception"}

\* Youtube_Downloader.run_download: exit code 0 returns a CompletedProcess,
\* any other exit code raises CalledProcessError whatever the output says,
\* a missing binary raises RuntimeError
YtRunDownload(o) ==
    CASE o = "ok" -> "returncode_0"
      [] o \in {"unavailable", "error"} -> "CalledProcessError"
      [] OTHER -> "RuntimeError"

\* the records one run_download writes: <<to the success log, to the
\* failure log>>; a missing tool goes to the error log only
YtRunDownloadLogs(o) ==
    CASE o = "ok" -> <<1, 0>>
      [] o \in {"unavailable", "error"} -> <<0, 1>>
      [] OTHER -> <<0, 0>>

\* the log_failure calls of the handlers around run_download in the batch:
\* CalledProcessError at the last attempt, any other exception at every one
YtRetryLoopLogs(o, n) ==
    CASE YtRunDownload(o) = "CalledProcessError" -> IF n < MAX_RETRIES THEN 0 ELSE 1
      [] YtRunDownload(o) = "RuntimeError" -> 1
      [] OTHER -> 0

\* Youtube_Downloader.validate_resource: (is_valid, message)
YtValidateResource(vo) ==
    CASE vo = "available" -> <<TRUE, "Available">>
      [] vo = "flagged_unavailable" -> <<FALSE, "Video unavailable">>
      [] vo = "bad_json" -> <<TRUE, "Music Resource Available">>
      [] vo = "nonzero" -> <<FALSE, "Resource unavailable">>
      [] vo = "timeout" -> <<FALSE, "Validation timeout">>
      [] OTHER -> <<FALSE, "Validation error">>

\* the validator outcomes a batch item is run against: the two that accept,
\* a rejection by exit code and a rejection by exception; the batch reads
\* nothing of a rejection but is_valid and the message
BatchValOutcomes == {"available", "bad_json", "nonzero", "timeout"}

\* the tool did what it was asked to
ToolOk(o) == o \in {"ok", "available"}

----------------------------------------------------------------------------
(* Youtube_Downloader.download_from_file *)

\* the delay moved in front of every attempt
YtSleepsBeforeEvery(a) == a >= 1

\* for attempt in range(1, MAX_RETRIES + 1): if attempt > 1: time.sleep(RETRY_DELAY)
YtSleepsBefore(a) == a > 1

\* range(1, MAX_RETRIES): one iteration short
YtLoopStopsEarly(a) == a + 1 < MAX_RETRIES

\* range(1, MAX_RETRIES + 1): there is an iteration after attempt a
YtLoopContinues(a) == a + 1 <= MAX_RETRIES

\* an index that jumps over a line
YtSkipsALine(idx) == idx + 2

\* for i, url in enumerate(file_lines, 1): the index of the next iteration
YtNextIndex(idx) == idx + 1

\* the loop left with its last item still to do
YtLoopEndsEarly(idx, n) == idx >= n

\* the for loop over file_lines is exhausted
YtLoopDone(idx, n) == idx > n

\* a line with any status marker taken as handled
YtAlreadyMarked(line) == Contains(line, DOWNLOADED) \/ Contains(line, FAILED)

\* if "# DOWNLOADED" in url
YtAlreadyDownloaded(line) == Contains(line, DOWNLOADED)

\* the marker appended to the line as read, comment and all
YtStatusLineAppends(line, ok) ==
    Marked(line, IF ok THEN DOWNLOADED ELSE FAILED)

\* the line written for an item after its retry loop
YtStatusLine(line, ok) ==
    LET clean_url == Strip(SplitHash0(line))
        marker == IF ok THEN DOWNLOADED ELSE FAILED
    IN IF Contains(line, <<"#">>)
       THEN Marked(Strip(SplitHash0(line)), marker)
       ELSE Marked(clean_url, marker)

\* a rejected item marked like a failed download
YtValidationMarkedFailed(line, message) ==
    Marked(Strip(SplitHash0(line)), FAILED)

\* the line written for an item the validator rejected
YtValidationLine(line, message) ==
    Marked(Strip(SplitHash0(line)), VALIDATION_FAILED(message))

\* the new line put on every line that has the item's clean target
YtRewriteByTarget(lines, idx, new) ==
    [k \in 1..Len(lines) |->
        IF Strip(SplitHash0(lines[k])) = Strip(SplitHash0(lines[idx]))
        THEN new ELSE lines[k]]

\* file_lines[i - 1] = new, i counting the lines from 1
YtRewrite(lines, idx, new) == [lines EXCEPT ![idx] = new]

\* the loop entered although the file could not be read
YtReadUnchecked(fs, lines) == lines # <<>>

\* the file exists, open() and the read raise nothing, and there are lines
YtReadOk(fs, lines) == fs = "ok" /\ lines # <<>>

\* existence check, read, empty check
YtOpen(fs) ==
    /\ flow = "yt_batch" /\ pc = "idle"
    /\ IF YtReadOk(fs, ReadLines(disk))
       THEN /\ file_lines' = ReadLines(disk)
            /\ lines_read' = ReadLines(disk)
            /\ i' = 1
            /\ success_count' = 0
            /\ failed_count' = 0
            /\ pc' = "item"
            /\ UNCHANGED result
       ELSE /\ result' = "False"
            /\ pc' = "done"
            /\ UNCHANGED <<file_lines, lines_read, i, success_count, failed_count>>
    /\ read_status' = fs
    /\ readsOk' = (readsOk /\ fs = "ok")
    /\ UNCHANGED <<flow, disk, url, attempt, success, trace, run, valCalls, toolAlwaysOk,
                   writes, validated, validation_choice,
                   download_choice, summary, metadata,
                   success_downloads, failed_downloads, user_config, rlvars>>

\* a line that carries "# DOWNLOADED"
YtSkip ==
    /\ flow = "yt_batch" /\ pc = "item" /\ i <= Len(file_lines)
    /\ ~YtLoopDone(i, Len(file_lines))
    /\ YtAlreadyDownloaded(file_lines[i])
    /\ url' = file_lines[i]
    /\ success_count' = success_count + 1
    /\ i' = YtNextIndex(i)
    /\ trace' = <<>>
    /\ validated' = "none"
    /\ success_downloads' = 2
    /\ failed_downloads' = 0
    /\ UNCHANGED <<flow, pc, disk, file_lines, lines_read, failed_count, attempt,
                   success, run, valCalls, toolAlwaysOk, readsOk, result,
                   writes, validation_choice,
                   download_choice, summary, read_status, metadata,
                   user_config, rlvars>>

\* validate_resource(clean_url), and the rejection of the item
YtValidate(vo) ==
    /\ flow = "yt_batch" /\ pc = "item" /\ i <= Len(file_lines)
    /\ ~YtLoopDone(i, Len(file_lines))
    /\ ~YtAlreadyDownloaded(file_lines[i])
    /\ url' = file_lines[i]
    /\ valCalls' = valCalls + 1
    /\ toolAlwaysOk' = (toolAlwaysOk /\ ToolOk(vo))
    /\ trace' = <<>>
    /\ IF YtValidateResource(vo)[1]
       THEN /\ success' = FALSE
            /\ attempt' = 1
            /\ pc' = "loop"
            /\ UNCHANGED <<file_lines, failed_count, i>>
       ELSE /\ file_lines' =
                 YtRewrite(file_lines, i,
                           YtValidationLine(file_lines[i], YtValidateResource(vo)[2]))
            /\ failed_count' = failed_count + 1
            /\ i' = YtNextIndex(i)
            /\ UNCHANGED <<success, attempt, pc>>
    /\ validated' = vo
    /\ success_downloads' = 1
    /\ failed_downloads' = (IF YtValidateResource(vo)[1] THEN 0 ELSE 1)
    /\ UNCHANGED <<flow, disk, lines_read, success_count, run, readsOk,
                   result, writes, validation_choice,
                   download_choice, summary, read_status, metadata,
                   user_config, rlvars>>

\* head of one iteration of the retry loop: the delay before a retry
YtLoop ==
    /\ flow = "yt_batch" /\ pc = "loop"
    /\ trace' = IF YtSleepsBefore(attempt) THEN Append(trace, "sleep") ELSE trace
    /\ pc' = "run"
    /\ validated' = "none"
    /\ UNCHANGED <<flow, disk, file_lines, lines_read, i, url, success_count,
                   failed_count, attempt, success, run, valCalls,
                   toolAlwaysOk, readsOk, result, writes, validation_choice, download_choice, summary,
                   read_status, metadata, success_downloads,
                   failed_downloads, user_config, rlvars>>

\* run_download and the try/except around it
YtRun(o) ==
    /\ flow = "yt_batch" /\ pc = "run"
    /\ toolAlwaysOk' = (toolAlwaysOk /\ ToolOk(o))
    /\ trace' = Append(trace, o)
    /\ IF YtRunDownload(o) = "returncode_0"
       THEN /\ success' = TRUE
            /\ pc' = "mark"
            /\ UNCHANGED attempt
       ELSE /\ UNCHANGED success
            /\ IF YtLoopContinues(attempt)
               THEN attempt' = attempt + 1 /\ pc' = "loop"
               ELSE UNCHANGED attempt /\ pc' = "mark"
    /\ success_downloads' = success_downloads + YtRunDownloadLogs(o)[1]
    /\ failed_downloads' =
          failed_downloads + YtRunDownloadLogs(o)[2] + YtRetryLoopLogs(o, attempt)
    /\ UNCHANGED <<flow, disk, file_lines, lines_read, i, url, success_count,
                   failed_count, run, valCalls, readsOk, result,
                   writes, validated, validation_choice,
                   download_choice, summary, read_status, metadata,
                   user_config, rlvars>>

\* the child process never exits: run_download reads its output until end of
\* file and then calls process.wait(), neither with a timeout, so the call
\* does not return
YtBlock ==
    /\ flow = "yt_batch" /\ pc = "run"
    /\ pc' = "blocked"
    /\ toolAlwaysOk' = FALSE
    /\ UNCHANGED <<flow, disk, file_lines, lines_read, i, url, success_count,
                   failed_count, attempt, success, trace, run, valCalls,
                   readsOk, result, writes, validated, validation_choice,
                   download_choice, summary, read_status, metadata,
                   success_downloads, failed_downloads, user_config, rlvars>>

\* after the retry loop: count the item and rewrite its line in memory
YtMark ==
    /\ flow = "yt_batch" /\ pc = "mark"
    /\ IF success
       THEN success_count' = success_count + 1 /\ UNCHANGED failed_count
       ELSE failed_count' = failed_count + 1 /\ UNCHANGED success_count
    /\ file_lines' = YtRewrite(file_lines, i, YtStatusLine(url, success))
    /\ i' = YtNextIndex(i)
    /\ pc' = "item"
    /\ trace' = <<>>
    /\ validated' = "none"
    /\ success_downloads' = success_downloads + (IF success THEN 1 ELSE 0)
    /\ failed_downloads' = failed_downloads + (IF success THEN 0 ELSE 1)
    /\ UNCHANGED <<flow, disk, lines_read, url, attempt, success, run,
                   valCalls, toolAlwaysOk, readsOk, result, writes,
                   validation_choice, download_choice, summary,
                   read_status, metadata, user_config, rlvars>>

\* after the last line: write the manifest, print the summary, return
YtWrite ==
    /\ flow = "yt_batch" /\ pc = "item" /\ YtLoopDone(i, Len(file_lines))
    /\ disk' = file_lines
    /\ writes' = writes + 1
    /\ result' = IF failed_count = 0 THEN "True" ELSE "False"
    /\ pc' = "done"
    /\ summary' = <<success_count, failed_count>>
    /\ UNCHANGED <<flow, file_lines, lines_read, i, url, success_count,
                   failed_count, attempt, success, trace, run, valCalls,
                   toolAlwaysOk, readsOk, validated, validation_choice,
                   download_choice, read_status, metadata,
                   success_downloads, failed_downloads, user_config, rlvars>>

\* Ctrl-C while the loop runs: KeyboardInterrupt is not an Exception, so no
\* handler of download_from_file or run_download catches it; it leaves the
\* handler, whose file_lines are lost, and main prints "Operation cancelled".
\* i and the two counts stay as they were at that moment (history)
YtInterrupt ==
    /\ flow = "yt_batch" /\ pc \in {"item", "loop", "run", "mark", "blocked"}
    /\ pc' = "cancelled"
    /\ result' = "KeyboardInterrupt"
    /\ file_lines' = <<>> /\ url' = <<>>
    /\ attempt' = 0 /\ success' = FALSE
    /\ trace' = <<>>
    /\ validated' = "none"
    /\ success_downloads' = 0 /\ failed_downloads' = 0
    /\ UNCHANGED <<flow, disk, lines_read, i, success_count, failed_count, run,
                   valCalls, toolAlwaysOk, readsOk, writes, validation_choice,
                   download_choice, summary, read_status, metadata,
                   user_config, rlvars>>

\* the batch is run again over the manifest it left
NextRun ==
    /\ flow \in {"yt_batch", "sp_batch"} /\ pc = "done" /\ run < MaxRuns
    /\ run' = run + 1
    /\ pc' = "idle"
    /\ result' = "none"
    /\ valCalls' = 0
    /\ trace' = <<>>
    /\ file_lines' = <<>> /\ lines_read' = <<>>
    /\ i' = 0 /\ url' = <<>>
    /\ success_count' = 0 /\ failed_count' = 0
    /\ attempt' = 0 /\ success' = FALSE
    /\ writes' = 0
    /\ validated' = "none"
    /\ validation_choice' = 0
    /\ summary' = <<>>
    /\ read_status' = "none"
    /\ success_downloads' = 0 /\ failed_downloads' = 0
    /\ UNCHANGED <<flow, disk, toolAlwaysOk, readsOk, download_choice,
                   metadata, user_config, rlvars>>

----------------------------------------------------------------------------
(* Youtube_Downloader.download_playlist, from the validation of the url on *)

\* validate_resource(url): a rejected url sends the user back to the prompt,
\* where 'back' returns False
YpStart(vo) ==
    /\ flow = "yt_playlist" /\ pc = "idle"
    /\ valCalls' = valCalls + 1
    /\ toolAlwaysOk' = (toolAlwaysOk /\ ToolOk(vo))
    /\ IF YtValidateResource(vo)[1]
       THEN pc' = "loop" /\ attempt' = 1 /\ UNCHANGED result
       ELSE pc' = "done" /\ result' = "False" /\ UNCHANGED attempt
    /\ failed_downloads' = (IF YtValidateResource(vo)[1] THEN 0 ELSE 1)
    /\ UNCHANGED <<flow, disk, file_lines, lines_read, i, url, success_count,
                   failed_count, success, trace, run, readsOk, writes,
                   validated, validation_choice, download_choice, summary,
                   read_status, metadata, success_downloads,
                   user_config, rlvars>>

\* head of one iteration: the delay before a retry
YpLoop ==
    /\ flow = "yt_playlist" /\ pc = "loop"
    /\ trace' = IF YtSleepsBefore(attempt) THEN Append(trace, "sleep") ELSE trace
    /\ pc' = "run"
    /\ UNCHANGED <<flow, disk, file_lines, lines_read, i, url, success_count,
                   failed_count, attempt, success, run, valCalls, toolAlwaysOk,
                   readsOk, result, writes, validated, validation_choice,
                   download_choice, summary, read_status, metadata,
                   success_downloads, failed_downloads, user_config, rlvars>>

\* run_download and what follows it in the iteration. After exit code 0
\* the user is asked "Download another playlist?": yes is `continue`, which
\* goes to the next iteration of the for loop with the same url. A failure
\* goes to the next iteration too; the loop left without a return gives False
YpRun(o, another) ==
    /\ flow = "yt_playlist" /\ pc = "run"
    /\ toolAlwaysOk' = (toolAlwaysOk /\ ToolOk(o))
    /\ trace' = Append(trace, o)
    /\ success' = (YtRunDownload(o) = "returncode_0")
    /\ IF YtRunDownload(o) = "returncode_0" /\ ~another
       THEN pc' = "done" /\ result' = "True" /\ UNCHANGED attempt
       ELSE IF YtLoopContinues(attempt)
            THEN pc' = "loop" /\ attempt' = attempt + 1 /\ UNCHANGED result
            ELSE pc' = "done" /\ result' = "False" /\ UNCHANGED attempt
    /\ success_downloads' =
          success_downloads + YtRunDownloadLogs(o)[1]
              + (IF YtRunDownload(o) = "returncode_0" THEN 1 ELSE 0)
    /\ failed_downloads' =
          failed_downloads + YtRunDownloadLogs(o)[2]
              + (IF YtRunDownload(o) = "CalledProcessError" /\ attempt >= MAX_RETRIES
                 THEN 1 ELSE 0)
    /\ UNCHANGED <<flow, disk, file_lines, lines_read, i, url, success_count,
                   failed_count, run, valCalls, readsOk, writes, validated,
                   validation_choice, download_choice, summary, read_status,
                   metadata, user_config, rlvars>>

----------------------------------------------------------------------------
(* validate_resource: the verdict on what the metadata subprocess gave *)

\* what subprocess.run and json.loads can give: exc is the exception of
\* subprocess.run, rc the exit code, parsed whether stdout is JSON, title
\* whether the metadata has a title or name, flagged whether its availability
\* is 'unavailable', has_duration whether it has a duration key, duration
\* the sign of that value, tracks and avail the tracks listed and those not
\* flagged unavailable
Metadata ==
    [exc : {"none", "timeout", "other"}, rc : {0, 1}, parsed : BOOLEAN,
     title : BOOLEAN, flagged : BOOLEAN, kind : {"track", "playlist"},
     has_duration : BOOLEAN, duration : {-1, 1},
     tracks : 0..MaxTracks, avail : 0..MaxTracks]

\* Youtube_Downloader.validate_resource: is_valid
YtIsValid(m) ==
    IF m.exc # "none" THEN FALSE
    ELSE IF m.rc = 0
         THEN IF m.parsed THEN ~m.flagged ELSE TRUE
         ELSE FALSE

\* Spotify_Downloader.validate_resource: is_available
SpIsAvailable(m) ==
    IF m.exc # "none" THEN FALSE
    ELSE IF m.rc = 0 /\ m.parsed
         THEN IF ~m.title THEN FALSE
              ELSE IF m.has_duration /\ m.duration <= 0 THEN FALSE
              ELSE IF m.kind = "playlist"
                   THEN IF m.tracks = 0 THEN FALSE
                        ELSE IF m.avail = 0 THEN FALSE
                        ELSE TRUE
                   ELSE TRUE
         ELSE FALSE

\* one call of validate_resource, on whatever the subprocess gives
ValidateResource ==
    /\ flow \in {"yt_validate", "sp_validate"} /\ pc = "idle"
    /\ \E m \in Metadata :
          /\ m.avail <= m.tracks
          /\ metadata' = m
          /\ result' = IF flow = "yt_validate"
                       THEN (IF YtIsValid(m) THEN "True" ELSE "False")
                       ELSE (IF SpIsAvailable(m) THEN "True" ELSE "False")
    /\ pc' = "done"
    /\ UNCHANGED <<flow, disk, file_lines, lines_read, i, url, success_count,
                   failed_count, attempt, success, trace, run, valCalls,
                   toolAlwaysOk, readsOk, writes, validated, validation_choice,
                   download_choice, summary, read_status,
                   success_downloads, failed_downloads, user_config, rlvars>>

----------------------------------------------------------------------------
(* Spotify_Downloader.download_from_file *)

\* Spotify_Downloader.validate_spotify_url: each element of spotify_patterns
\* is a (regex, type) pair and the pair itself is handed to re.match, which
\* raises TypeError on the first iteration, outside the function's try
SpValidateSpotifyUrl(u) == "TypeError"

\* a call of Spotify_Downloader.validate_resource(self, url) with these arguments
SpValidateResource(args) ==
    IF Len(args) = 1 THEN "validated" ELSE "TypeError"

\* urls_to_process: clean targets of the lines without "# DOWNLOADED"
SpUrlsToProcess(lines) ==
    LET Pending(l) == ~Contains(l, DOWNLOADED) /\ Strip(SplitHash0(l)) # <<>>
        kept == SelectSeq(lines, Pending)
    IN [k \in 1..Len(kept) |-> Strip(SplitHash0(kept[k]))]

\* the handler up to its return or to the exception that leaves it:
\* with validation chosen the first validate_resource(url, skip_cache) raises,
\* without it the first item's validate_spotify_url(url) raises
SpBatch(fs, vc) ==
    /\ flow = "sp_batch" /\ pc = "idle"
    /\ LET lines == ReadLines(disk)
           urls_to_process == SpUrlsToProcess(lines)
       IN IF fs # "ok" \/ lines = <<>>
          THEN /\ result' = "False"
               /\ UNCHANGED <<file_lines, lines_read, url>>
          ELSE /\ file_lines' = lines
               /\ lines_read' = lines
               /\ IF urls_to_process = <<>>
                  THEN result' = "True" /\ UNCHANGED url
                  ELSE /\ url' = urls_to_process[1]
                       /\ result' =
                            IF vc \in {1, 3}
                            THEN SpValidateResource(<<urls_to_process[1], vc = 3>>)
                            ELSE SpValidateSpotifyUrl(urls_to_process[1])
    /\ validation_choice' = (IF fs = "missing" THEN 0 ELSE vc)
    /\ pc' = "done"
    /\ read_status' = fs
    /\ readsOk' = (readsOk /\ fs = "ok")
    /\ UNCHANGED <<flow, disk, i, success_count, failed_count, attempt, success,
                   trace, run, valCalls, toolAlwaysOk, writes,
                   validated, download_choice, summary, metadata,
                   success_downloads, failed_downloads, user_config, rlvars>>

----------------------------------------------------------------------------
(* interactive_downloader_2.py: Youtube_Downloader.download_single *)

\* the str literal "This video is unavailable" as a condition
LiteralIsTruthy == TRUE

\* Youtube_Downloader.run_download: <<has a returncode, returncode>>.
\* In the CalledProcessError handler the test
\*   "This video is unavailable" or "Privae video" in stderr
\* is the literal, so every nonzero exit gets returncode 404; a timeout gets
\* 400; any other exception is returned as an object without returncode
IdRunDownload(o) ==
    CASE o = "ok" -> <<TRUE, 0>>
      [] o \in {"unavailable", "error"} ->
            IF LiteralIsTruthy \/ o = "unavailable" THEN <<TRUE, 404>> ELSE <<TRUE, 402>>
      [] o = "timeout" -> <<TRUE, 400>>
      [] OTHER -> <<FALSE, 0>>

\* the body of the retry loop after run_download returned r: what download_single returns
IdDecide(r) ==
    IF r[1] /\ r[2] = 0 THEN "True"
    ELSE IF r[1] /\ r[2] \in {404, 403, 408} THEN "False"
    ELSE "True"

\* validate_youtube_url(url)
IdStart(valid) ==
    /\ flow = "id_single" /\ pc = "idle"
    /\ IF valid
       THEN pc' = "run" /\ attempt' = 0 /\ UNCHANGED result
       ELSE pc' = "done" /\ result' = "False" /\ UNCHANGED attempt
    /\ UNCHANGED <<flow, disk, file_lines, lines_read, i, url, success_count,
                   failed_count, success, trace, run, valCalls,
                   toolAlwaysOk, readsOk, writes, validated,
                   validation_choice, download_choice, summary,
                   read_status, metadata, success_downloads,
                   failed_downloads, user_config, rlvars>>

\* one iteration of for attempt in range(self.__max_retries): run_download
\* never raises, so every iteration returns
IdRun(o) ==
    /\ flow = "id_single" /\ pc = "run"
    /\ toolAlwaysOk' = (toolAlwaysOk /\ ToolOk(o))
    /\ trace' = Append(trace, o)
    /\ result' = IdDecide(IdRunDownload(o))
    /\ success' = (IdDecide(IdRunDownload(o)) = "True")
    /\ pc' = "done"
    /\ UNCHANGED <<flow, disk, file_lines, lines_read, i, url, success_count,
                   failed_count, attempt, run, valCalls, readsOk,
                   writes, validated, validation_choice,
                   download_choice, summary, read_status, metadata,
                   success_downloads, failed_downloads, user_config, rlvars>>

----------------------------------------------------------------------------
(* downloader_test.py: DeemixDownloader.download_from_file *)

\* [line.strip() for line in f if line.strip() and not line.startswith('#')]
DxUrls(file) ==
    LET Kept(l) == Strip(l) # <<>> /\ l[1] # "#"
        kept == SelectSeq(file, Kept)
    IN [k \in 1..Len(kept) |-> Strip(kept[k])]

\* existence check and read: a missing file returns the zero counts, an
\* error of open() leaves the handler as an exception
DxOpen(fs) ==
    /\ flow = "dx_batch" /\ pc = "idle"
    /\ IF fs = "ok"
       THEN /\ file_lines' = DxUrls(disk)
            /\ lines_read' = DxUrls(disk)
            /\ i' = 1
            /\ pc' = "item"
            /\ UNCHANGED result
       ELSE /\ result' = IF fs = "missing" THEN "counts" ELSE "OSError"
            /\ pc' = "done"
            /\ UNCHANGED <<file_lines, lines_read, i>>
    /\ read_status' = fs
    /\ readsOk' = (readsOk /\ fs = "ok")
    /\ UNCHANGED <<flow, disk, url, success_count, failed_count, attempt,
                   success, trace, run, valCalls, toolAlwaysOk, writes,
                   validated, validation_choice, download_choice,
                   summary, metadata, success_downloads,
                   failed_downloads, user_config, rlvars>>

\* one iteration: success = await self.download_from_url(url), which returns
\* a bool, and the count of the item
DxItem(ok) ==
    /\ flow = "dx_batch" /\ pc = "item" /\ i <= Len(file_lines)
    /\ url' = file_lines[i]
    /\ success' = ok
    /\ toolAlwaysOk' = (toolAlwaysOk /\ ok)
    /\ IF ok
       THEN success_count' = success_count + 1 /\ UNCHANGED failed_count
       ELSE failed_count' = failed_count + 1 /\ UNCHANGED success_count
    /\ i' = i + 1
    /\ UNCHANGED <<flow, pc, disk, file_lines, lines_read, attempt, trace, run,
                   valCalls, readsOk, result, writes, validated,
                   validation_choice, download_choice, summary,
                   read_status, metadata, success_downloads,
                   failed_downloads, user_config, rlvars>>

\* return results
DxReturn ==
    /\ flow = "dx_batch" /\ pc = "item" /\ i > Len(file_lines)
    /\ result' = "counts"
    /\ pc' = "done"
    /\ UNCHANGED <<flow, disk, file_lines, lines_read, i, url, success_count,
                   failed_count, attempt, success, trace, run, valCalls,
                   toolAlwaysOk, readsOk, writes, validated,
                   validation_choice, download_choice, summary,
                   read_status, metadata, success_downloads,
                   failed_downloads, user_config, rlvars>>

----------------------------------------------------------------------------
(* rate_limit(calls_per_minute): decorator and wrapper, in the three files *)

Threads == {1, 2}

\* 60.0 / calls_per_minute
Interval == 60 \div CallsPerMinute

\* the clock when the first call arrives: last_called[0] starts at 0.0 and
\* time.time() is far beyond one interval, so the first call never waits
StartTime == Interval

\* with call_lock: (youtube_url_downloader.py, spotify_url_downloader.py)
RlLocks(v) == v \in {"yt", "sp"}

\* wait_time = (60.0 / calls_per_minute) - elapsed_time
RlWaitTime(t, last) == Interval - (t - last)

\* last_called[0] after func raised at time t
RlAfterException(v, t, last) ==
    IF v \in {"yt", "sp"} THEN t - Interval ELSE last

\* what the caller of wrapper gets when func raised: youtube re-raises,
\* spotify's handler has no raise and wrapper returns None, interactive has no handler
RlCallerSees(v) == IF v = "sp" THEN "None" ELSE "exception"

\* entered calls that have not started func yet
RlPending == {t \in Threads : tpc[t] = "sleeping"}

\* enter wrapper: take the lock where there is one, read the clock, compute the wait
RlEnter(th) ==
    /\ rlv # "none" /\ tpc[th] = "idle"
    /\ Len(starts) + Cardinality(RlPending) < MaxCalls
    /\ IF RlLocks(rlv)
       THEN call_lock = 0 /\ call_lock' = th
       ELSE UNCHANGED call_lock
    /\ wakeAt' = [wakeAt EXCEPT ![th] =
                    IF RlWaitTime(now, last_called) > 0
                    THEN now + RlWaitTime(now, last_called)
                    ELSE now]
    /\ tpc' = [tpc EXCEPT ![th] = "sleeping"]
    /\ UNCHANGED <<rlv, now, last_called, starts, seen, dlvars>>

\* the sleep is over: last_called[0] = time.time(), then func is called
RlStamp(th) ==
    /\ tpc[th] = "sleeping" /\ now >= wakeAt[th]
    /\ last_called' = now
    /\ starts' = Append(starts, [th |-> th, t |-> now, end |-> "running"])
    /\ tpc' = [tpc EXCEPT ![th] = "in_func"]
    /\ UNCHANGED <<rlv, now, call_lock, wakeAt, seen, dlvars>>

\* index in starts of the call thread th is in
RlCurrent(th) ==
    CHOOSE k \in 1..Len(starts) : starts[k].th = th /\ starts[k].end = "running"

\* func returns
RlReturn(th) ==
    /\ tpc[th] = "in_func"
    /\ starts' = [starts EXCEPT ![RlCurrent(th)].end = "returned"]
    /\ seen' = [seen EXCEPT ![th] = "value"]
    /\ call_lock' = IF RlLocks(rlv) THEN 0 ELSE call_lock
    /\ tpc' = [tpc EXCEPT ![th] = "idle"]
    /\ UNCHANGED <<rlv, now, last_called, wakeAt, dlvars>>

\* func raises
RlRaise(th) ==
    /\ tpc[th] = "in_func"
    /\ starts' = [starts EXCEPT ![RlCurrent(th)].end = "raised"]
    /\ last_called' = RlAfterException(rlv, now, last_called)
    /\ seen' = [seen EXCEPT ![th] = RlCallerSees(rlv)]
    /\ call_lock' = IF RlLocks(rlv) THEN 0 ELSE call_lock
    /\ tpc' = [tpc EXCEPT ![th] = "idle"]
    /\ UNCHANGED <<rlv, now, wakeAt, dlvars>>

\* one second passes
Tick ==
    /\ rlv # "none" /\ now < MaxTime
    /\ now' = now + 1
    /\ UNCHANGED <<rlv, last_called, call_lock, tpc, wakeAt, starts, seen, dlvars>>

----------------------------------------------------------------------------
(* Specifications *)

\* manifest lines a user may have written
SampleLines ==
    { <<"a">>, <<"a", "b", " ">>, <<"a", " ", "#", " ", "c">>,
      <<"a", " ", "#", " ", "DOWNLOADED">>, <<" ">> }

RECURSIVE SeqsUpTo(_, _)
\* sequences over S of length at most n
SeqsUpTo(S, n) ==
    IF n = 0 THEN {<<>>}
    ELSE LET shorter == SeqsUpTo(S, n - 1)
         IN shorter \cup {Append(q, x) : q \in shorter, x \in S}

DlIdle ==
    /\ pc = "idle"
    /\ file_lines = <<>> /\ lines_read = <<>>
    /\ i = 0 /\ url = <<>>
    /\ success_count = 0 /\ failed_count = 0
    /\ attempt = 0 /\ success = FALSE
    /\ trace = <<>>
    /\ run = 1 /\ valCalls = 0
    /\ toolAlwaysOk = TRUE
    /\ readsOk = TRUE
    /\ result = "none"
    /\ failed_downloads = 0
    /\ success_downloads = 0
    /\ metadata = <<>>
    /\ read_status = "none"
    /\ summary = <<>>
    /\ download_choice = 0
    /\ validation_choice = 0
    /\ validated = "none"
    /\ writes = 0

RlIdle ==
    /\ now = StartTime
    /\ last_called = 0
    /\ call_lock = 0
    /\ tpc = [t \in Threads |-> "idle"]
    /\ wakeAt = [t \in Threads |-> 0]
    /\ starts = <<>>
    /\ seen = [t \in Threads |-> "nothing"]

Init ==
    /\ flow \in {"yt_batch", "sp_batch", "id_single", "dx_batch", "yt_playlist",
                 "yt_validate", "sp_validate"}
    /\ disk \in IF flow \in {"yt_batch", "sp_batch", "dx_batch"}
               THEN SeqsUpTo(SampleLines, MaxLines) ELSE {<<>>}
    /\ user_config \in IF flow = "yt_playlist" THEN ConfigMaxRetries
                      ELSE {MAX_RETRIES}
    /\ DlIdle
    /\ rlv = "none"
    /\ RlIdle

Next ==
    \/ \E fs \in {"ok", "missing", "unreadable"} : YtOpen(fs)
    \/ YtSkip
    \/ \E vo \in BatchValOutcomes : YtValidate(vo)
    \/ YtLoop
    \/ \E o \in DlOutcomes : YtRun(o)
    \/ YtBlock
    \/ YtMark
    \/ YtWrite
    \/ YtInterrupt
    \/ NextRun
    \/ \E fs \in {"ok", "missing", "unreadable"}, vc \in 1..3 : SpBatch(fs, vc)
    \/ \E valid \in BOOLEAN : IdStart(valid)
    \/ \E o \in IdOutcomes : IdRun(o)
    \/ \E vo \in BatchValOutcomes : YpStart(vo)
    \/ YpLoop
    \/ \E o \in DlOutcomes, another \in BOOLEAN : YpRun(o, another)
    \/ \E fs \in {"ok", "missing", "unreadable"} : DxOpen(fs)
    \/ \E ok \in BOOLEAN : DxItem(ok)
    \/ DxReturn
    \/ ValidateResource

Spec == Init /\ [][Next]_vars

\* a handler that can take a step takes it; nobody has to press Ctrl-C
SpecFair == Init /\ [][Next]_vars /\ WF_vars(Next /\ pc' # "cancelled")

InitRL ==
    /\ flow = "none"
    /\ disk = <<>>
    /\ user_config = MAX_RETRIES
    /\ DlIdle
    /\ rlv \in {"yt", "sp", "id"}
    /\ RlIdle

NextRL ==
    \/ \E th \in Threads : RlEnter(th)
    \/ \E th \in Threads : RlStamp(th)
    \/ \E th \in Threads : RlReturn(th)
    \/ \E th \in Threads : RlRaise(th)
    \/ Tick

SpecRL == InitRL /\ [][NextRL]_vars

----------------------------------------------------------------------------
(* Properties *)

\* the invocations among the events of the current item
Attempts(tr) ==
    LET IsAttempt(e) == e # "sleep"
    IN SelectSeq(tr, IsAttempt)

\* the retry loop of the current request is over
RetryOver ==
    \/ flow = "yt_batch" /\ pc = "mark"
    \/ flow = "id_single" /\ pc = "done" /\ trace # <<>>

\* the retry loop reported success
RetrySucceeded ==
    IF flow = "id_single" THEN result = "True" ELSE success

\* C1: a request whose attempt fails with a permanent condition ("video
\* unavailable", private, age restricted) gets exactly one invocation of
\* the downloader and is reported as failed, whatever MAX_RETRIES is.
C1_NonRetryableOnce ==
    (RetryOver /\ Attempts(trace)[1] = "unavailable")
        => (Len(Attempts(trace)) = 1 /\ ~RetrySucceeded)

\* C2: a request of a batch whose attempts all fail with a retryable error
\* gets exactly MAX_RETRIES invocations and MAX_RETRIES - 1 sleeps, every
\* sleep between two consecutive invocations, and is reported as failed.
C2_RetryableExhausts ==
    (flow \in {"yt_batch", "sp_batch"} /\ pc = "mark"
       /\ \A k \in 1..Len(Attempts(trace)) : Attempts(trace)[k] = "error")
        => /\ Len(Attempts(trace)) = MAX_RETRIES
           /\ Len(trace) = 2 * MAX_RETRIES - 1
           /\ \A k \in 1..Len(trace) :
                 trace[k] = IF k % 2 = 1 THEN "error" ELSE "sleep"
           /\ ~success

C2_Witness ==
    /\ flow = "yt_batch" /\ pc = "mark"
    /\ trace = <<"error", "sleep", "error", "sleep", "error">>
    /\ ~success

\* C3: when the first invocation exits with code 0 the retry loop reports
\* success after that one attempt, and no sleep precedes the first attempt.
C3_FirstTrySuccess ==
    /\ trace # <<>> => trace[1] # "sleep"
    /\ (flow \in {"yt_batch", "id_single"} /\ trace # <<>> /\ trace[1] = "ok")
          => /\ trace = <<"ok">>
             /\ success
             /\ Len(Attempts(trace)) = 1
             /\ flow = "id_single" => result = "True"

C3_Witness ==
    \/ flow = "yt_batch" /\ pc = "mark" /\ trace = <<"ok">> /\ success
    \/ flow = "id_single" /\ pc = "done" /\ trace = <<"ok">> /\ result = "True"

\* the lines of a manifest that a batch run has to attempt
PendingLines(lines) == {k \in 1..Len(lines) : ~Contains(lines[k], DOWNLOADED)}

\* C4: with a tool that always succeeds and a manifest that can be read,
\* the first batch run leaves every line marked # DOWNLOADED and the second
\* run makes no external invocation.
C4_Idempotent ==
    (flow \in {"yt_batch", "sp_batch"} /\ run = 2 /\ toolAlwaysOk /\ readsOk)
        => /\ Attempts(trace) = <<>> /\ valCalls = 0
           /\ PendingLines(ReadLines(disk)) = {}

\* C5: a line already marked # DOWNLOADED is left as it was read, costs no
\* external invocation, and is counted neither as success nor as failure:
\* the two counts of the summary add up to the number of lines attempted.
C5_SkippedNotCounted ==
    (flow = "yt_batch" /\ pc = "done" /\ lines_read # <<>>)
        => /\ \A k \in 1..Len(lines_read) :
                 k \notin PendingLines(lines_read) => file_lines[k] = lines_read[k]
           /\ valCalls = Cardinality(PendingLines(lines_read))
           /\ success_count + failed_count = Cardinality(PendingLines(lines_read))

\* the number of "#" in a line
RECURSIVE Hashes(_)
Hashes(l) ==
    IF l = <<>> THEN 0 ELSE (IF Head(l) = "#" THEN 1 ELSE 0) + Hashes(Tail(l))

\* the status markers a rewritten line may end with
ValidatorMessages == {"Video unavailable", "Resource unavailable", "Validation timeout", "Validation error"}
StatusMarkers == {DOWNLOADED, FAILED} \cup {VALIDATION_FAILED(m) : m \in ValidatorMessages}

\* the lines of this run that have been processed so far
Processed ==
    IF flow = "yt_batch" /\ pc \in {"item", "loop", "run", "mark", "done"}
    THEN {k \in PendingLines(lines_read) : k < i}
    ELSE {}

\* C6: a processed line, whatever comment or marker it carried, is rewritten
\* as the clean target, one space and exactly one status marker; the line of
\* an item that succeeded ends with # DOWNLOADED: the lines ending with
\* # DOWNLOADED are as many as the items counted as successes, the others
\* as many as the items counted as failures.
C6_OneMarker ==
    /\ \A k \in Processed :
          /\ Hashes(file_lines[k]) = 1
          /\ \E m \in StatusMarkers :
                file_lines[k] = Strip(SplitHash0(lines_read[k])) \o <<" ">> \o m
    /\ (flow = "yt_batch" /\ pc \in {"item", "loop", "run", "mark", "done"})
          => /\ success_count =
                  Cardinality({k \in 1..Len(file_lines) :
                                  k < i /\ Contains(file_lines[k], DOWNLOADED)})
             /\ failed_count =
                  Cardinality({k \in 1..Len(file_lines) :
                                  k < i /\ ~Contains(file_lines[k], DOWNLOADED)})

C6_Witness ==
    /\ flow = "yt_batch" /\ pc = "item" /\ i > 1 /\ success /\ success_count = 1
    /\ lines_read[i - 1] = <<"a", " ", "#", " ", "c">>
    /\ file_lines[i - 1] = <<"a", " ", "#", " ", "DOWNLOADED">>

\* C10: a batch that read a manifest with pending lines goes through all of
\* them and reaches its rewrite and summary: it returns to its caller, it
\* does not end in an exception, whatever happened to the single items.
C10_BatchNeverAborts ==
    (flow \in {"yt_batch", "sp_batch"} /\ pc = "done" /\ lines_read # <<>>)
        => /\ result \in {"True", "False"}
           /\ PendingLines(lines_read) # {} => (i = Len(lines_read) + 1 /\ disk = file_lines)

\* C7: two consecutive calls of one caller through a rate-limited entry
\* point: the second protected call starts at least 60/calls_per_minute
\* seconds after the timestamp the first one recorded when it started.
C7_ConsecutiveSpacing ==
    rlv \in {"yt", "id"} =>
        \A k, j \in 1..Len(starts) :
            (k < j /\ starts[k].th = starts[j].th)
                => starts[j].t - starts[k].t >= Interval

\* C8: when the protected call raises, the timestamp it recorded stays: a
\* later call starts a full interval after the start of the failed one, and
\* the caller of the failed call gets the exception.
C8_ExceptionConsumesSlot ==
    rlv \in {"yt", "sp"} =>
    /\ \A k, j \in 1..Len(starts) :
          (k < j /\ starts[k].end = "raised")
              => starts[j].t - starts[k].t >= Interval
    /\ \A th \in Threads :
          (tpc[th] = "idle" /\ \E k \in 1..Len(starts) :
                /\ starts[k].th = th /\ starts[k].end = "raised"
                /\ \A j \in (k+1)..Len(starts) : starts[j].th # th)
              => seen[th] = "exception"

\* C9: with concurrent callers and no failing call, at most one caller is
\* between reading the elapsed time and recording the new timestamp, and no
\* two protected calls start less than 60/calls_per_minute seconds apart.
C9_ConcurrentCallers ==
    (\A k \in 1..Len(starts) : starts[k].end # "raised")
        => /\ Cardinality(RlPending) <= 1
           /\ \A k, j \in 1..Len(starts) :
                 k < j => starts[j].t - starts[k].t >= Interval

C12_SingleWriteAtEnd ==
    flow \in {"yt_batch", "sp_batch"} =>
        /\ pc \in {"item", "loop", "run", "mark", "blocked", "cancelled"}
              => (writes = 0 /\ ReadLines(disk) = lines_read)
        /\ writes <= 1
        /\ writes = 1
              => /\ pc = "done"
                 /\ disk = file_lines
                 /\ success_count + failed_count = Len(lines_read)

C12_Witness ==
    /\ flow = "yt_batch" /\ pc = "done" /\ writes = 1
    /\ Len(lines_read) = 2
    /\ disk = file_lines /\ file_lines # lines_read

\* the outcomes in which the validation step itself failed
ValidationStepFailures == {"bad_json", "timeout", "exception"}

\* C13: when the validation step fails (timeout, missing tool, output that
\* cannot be parsed, any other exception) the caller gets available = false
\* with a message and goes on: the item is rejected and the batch continues,
\* and no exception of the validation leaves the handler.
C13_ValidatorNeverRaises ==
    /\ (flow = "yt_batch" /\ validated \in ValidationStepFailures)
          => /\ pc \in {"item", "done"}
             /\ i > 1 /\ Contains(file_lines[i - 1], <<"VALIDATION_FAILED:">>)
    /\ (flow = "sp_batch" /\ pc = "done" /\ validation_choice \in {1, 3})
          => result \in {"True", "False"}

\* C14: a batch that validates and finds pending items asks its caller how
\* to proceed, and with the answer "download all" (2) the downloader is
\* invoked for the items the validator reported unavailable as for the others.
C14_OverrideStillDownloads ==
    (flow = "sp_batch" /\ pc = "done" /\ validation_choice \in {1, 3}
       /\ PendingLines(lines_read) # {})
        => /\ download_choice \in 1..4
           /\ download_choice = 2 => (result \in {"True", "False"} /\ writes = 1)

\* C15: every invocation of the downloader comes to an end: a handler that
\* has started an invocation gets its outcome, whatever the child does, and
\* goes on to the next attempt, to the next item or to its return, unless
\* the user cancels it.
C15_InvocationTerminates ==
    (pc = "run") ~> (pc \in {"loop", "mark", "done", "cancelled"})

\* all the attempts of the request ended in the outcome o
AllAttempts(o) ==
    /\ Attempts(trace) # <<>>
    /\ \A k \in 1..Len(Attempts(trace)) : Attempts(trace)[k] = o

\* C16: an attempt that timed out is a failed attempt that is retried within
\* the budget: a request whose attempts all time out is not reported as a
\* success and returns failure after MAX_RETRIES attempts.
C16_TimeoutRetried ==
    (RetryOver /\ AllAttempts("timeout"))
        => /\ ~RetrySucceeded
           /\ Len(Attempts(trace)) = MAX_RETRIES

\* C17: an attempt that could not launch the downloader counts against the
\* budget and is retried: a request whose attempts all fail to launch gets
\* MAX_RETRIES attempts and is reported as failed, never as a success.
C17_ProcessErrorRetried ==
    (RetryOver /\ AllAttempts("tool_missing"))
        => /\ Len(Attempts(trace)) = MAX_RETRIES
           /\ ~RetrySucceeded

\* C18: a batch run that read its manifest ends with the summary of the two
\* counts, also when it is interrupted in the loop: the summary then gives
\* the counts of the items processed up to the interruption.
C18_SummaryAlways ==
    (flow = "yt_batch" /\ pc \in {"done", "cancelled"} /\ lines_read # <<>>)
        => summary = <<success_count, failed_count>>

InvokedBefore(idx) ==
    {k \in 1..Len(file_lines) :
        /\ k < idx
        /\ k \in PendingLines(lines_read)
        /\ \/ Contains(file_lines[k], DOWNLOADED)
           \/ Contains(file_lines[k], FAILED)}

\* C20: every invocation of the downloader in a batch waits for the rate
\* limiter first: an invocation that no wait precedes (the first attempt of
\* an item, which no retry delay precedes either) is the first invocation
\* of the run, so that no two invocations start back to back.
C20_EveryInvocationRateLimited ==
    (flow = "yt_batch" /\ pc \in {"loop", "run", "mark"}
       /\ trace # <<>> /\ trace[1] # "sleep")
        => InvokedBefore(i) = {}

\* C21: once an attempt of a request has exited with code 0 the retry loop
\* is over: that attempt is the last invocation for the request and the
\* handler returns True, whatever the user answers to the prompt that follows.
C21_SuccessReturnsAtOnce ==
    (flow = "yt_playlist" /\ \E k \in 1..Len(trace) : trace[k] = "ok")
        => /\ trace[Len(trace)] = "ok"
           /\ Len(SelectSeq(trace, LAMBDA ev : ev = "ok")) = 1
           /\ pc = "done" /\ result = "True"

\* C22: an attempt that ends with a nonzero exit code and output matching
\* no known pattern is retryable: the retry loop ends on such an attempt
\* only when it was the last of the MAX_RETRIES attempts.
C22_UnknownErrorRetried ==
    (RetryOver /\ Attempts(trace) # <<>>
       /\ Attempts(trace)[Len(Attempts(trace))] = "error")
        => Len(Attempts(trace)) = MAX_RETRIES

\* what the validator is specified to require of an available target
MeetsAvailabilityRules(m) ==
    /\ m.exc = "none" /\ m.rc = 0 /\ m.parsed /\ m.title
    /\ m.kind = "playlist" => (m.tracks >= 1 /\ m.avail >= 1)
    /\ m.kind = "track" => (m.has_duration => m.duration > 0)

\* C23: a validator reports a target available only if the tool exited with
\* code 0, its output parsed as metadata with a title or name, an album or
\* playlist has a track and an available track, and a single track has a
\* positive duration; in every other case it reports unavailable.
C23_AvailableOnlyByTheRules ==
    (flow \in {"yt_validate", "sp_validate"} /\ pc = "done" /\ result = "True")
        => MeetsAvailabilityRules(metadata)

\* the validator's verdict on the last item was a rejection
Rejected ==
    /\ flow = "yt_batch" /\ validated \in BatchValOutcomes
    /\ ~YtValidateResource(validated)[1]

\* C24: an item the validator rejected is never passed to the downloader,
\* its manifest line is rewritten as the clean target with the validation-
\* failure marker and the validator's message, no line is dropped, and the
\* item is counted among the failures of the batch.
C24_RejectedItemMarked ==
    Rejected
        => /\ Attempts(trace) = <<>>
           /\ i > 1 /\ Len(file_lines) = Len(lines_read)
           /\ file_lines[i - 1] =
                 Marked(Strip(SplitHash0(lines_read[i - 1])),
                        VALIDATION_FAILED(YtValidateResource(validated)[2]))
           /\ failed_count >= 1
           /\ success_count + failed_count = i - 1

C24_Witness ==
    /\ Rejected /\ pc = "done" /\ validated = "timeout"
    /\ lines_read = << <<"a">>, <<"a", "b">> >>
    /\ disk = << <<"a", " ", "#", " ", "DOWNLOADED">>,
                 <<"a", "b", " ", "#", " ", "VALIDATION_FAILED:", " ", "Validation timeout">> >>
    /\ success_count = 1 /\ failed_count = 1

\* C25: an item gets exactly one record, in the success log or in the
\* failure log, when it reaches its terminal state; the failure log never
\* holds more than one record for an item, whatever the number of attempts,
\* and the success log holds none for an item that did not succeed.
C25_OneLogRecordPerItem ==
    flow = "yt_batch"
        => /\ failed_downloads <= 1
           /\ (pc = "item" /\ i > 1)
                 => /\ success_downloads + failed_downloads = 1
                    /\ success_downloads > 0
                          => Contains(file_lines[i - 1], DOWNLOADED)

\* C26: the retry loop makes at most as many attempts as the max_retries of
\* the persisted configuration that load_config read at startup.
C26_ConfigBoundsAttempts ==
    flow = "yt_playlist" => Len(Attempts(trace)) <= user_config

\* C27: the marker of an item is written on the item's own line and changes
\* no other line: the lines not attempted in this run (marked # DOWNLOADED
\* when read, or not reached yet) are as they were read, the attempted ones
\* keep their clean target at their place, no line is added or dropped, and
\* the file written is these lines; duplicate targets and a target that is a
\* prefix of another are lines like the others.
C27_OnlyOwnLineRewritten ==
    (flow = "yt_batch" /\ pc \in {"item", "loop", "run", "mark", "done"}
       /\ lines_read # <<>>)
        => /\ Len(file_lines) = Len(lines_read)
           /\ \A k \in 1..Len(file_lines) :
                 IF k < i /\ ~YtAlreadyDownloaded(lines_read[k])
                 THEN /\ Strip(SplitHash0(file_lines[k])) = Strip(SplitHash0(lines_read[k]))
                      /\ Hashes(file_lines[k]) = 1
                 ELSE file_lines[k] = lines_read[k]
           /\ (pc = "done" /\ writes = 1) => disk = file_lines

\* two lines with the same target end differently, each with its own outcome
C27_Witness ==
    /\ flow = "yt_batch" /\ pc = "done" /\ writes = 1
    /\ lines_read = << <<"a">>, <<"a">> >>
    /\ disk = << <<"a", " ", "#", " ", "FAILED">>,
                 <<"a", " ", "#", " ", "DOWNLOADED">> >>

\* C28: a retry loop reports success only if its last invocation of the
\* downloader exited with code 0: a request reported as downloaded has a
\* last attempt, and that attempt is not a timeout, a failure to launch or
\* a nonzero exit.
C28_SuccessOnlyOnExitZero ==
    (RetryOver /\ RetrySucceeded)
        => /\ Attempts(trace) # <<>>
           /\ Attempts(trace)[Len(Attempts(trace))] = "ok"

\* C29: at every point of a batch run success_count + failed_count is the
\* number of work-list items (the lines to attempt, those not marked
\* # DOWNLOADED when read) that reached their terminal outcome, and at the
\* end it is the size of the work list.
C29_CountsMatchWorkList ==
    /\ (flow = "yt_batch" /\ pc \in {"item", "loop", "run", "mark", "done"}
          /\ lines_read # <<>>)
          => /\ success_count + failed_count = Cardinality(Processed)
             /\ pc = "done" =>
                   success_count + failed_count = Cardinality(PendingLines(lines_read))
    /\ (flow = "dx_batch" /\ read_status = "ok")
          => /\ success_count + failed_count = i - 1
             /\ pc = "done" => success_count + failed_count = Len(file_lines)

\* the line carries a failure marker of an earlier run
FailureMarked(l) ==
    Contains(l, FAILED) \/ Contains(l, <<"#", " ", "VALIDATION_FAILED:">>)

\* C30: a line read with # FAILED or with the validation-failure marker is
\* not skipped: the batch validates its target again, and when its retry
\* loop is over the line becomes the clean target with # DOWNLOADED if the
\* attempt succeeded (and is counted as a success), with # FAILED otherwise.
C30_FailedLinesRetried ==
    [][ (flow = "yt_batch" /\ i \in 1..Len(lines_read)
           /\ FailureMarked(lines_read[i]))
          => /\ (pc = "item" /\ pc' # "cancelled") => valCalls' = valCalls + 1
             /\ (pc = "mark" /\ pc' = "item")
                   => /\ file_lines'[i] =
                            Marked(Strip(SplitHash0(lines_read[i])),
                                   IF success THEN DOWNLOADED ELSE FAILED)
                      /\ success => success_count' = success_count + 1 ]_vars

C30_Witness ==
    /\ flow = "yt_batch" /\ run = 2 /\ pc = "done" /\ writes = 1
    /\ lines_read = << <<"a", " ", "#", " ", "FAILED">>,
                       <<"a", "b", " ", "#", " ", "VALIDATION_FAILED:", " ", "Validation timeout">> >>
    /\ disk = << <<"a", " ", "#", " ", "DOWNLOADED">>,
                 <<"a", "b", " ", "#", " ", "DOWNLOADED">> >>

====
